---- MODULE Spec2Model ----
(***************************************************************************)
(* The claim view of src/src/App.tsx: the quantity counter, the four chain *)
(* reads, the wallet session, the claim TransactionButton with its two     *)
(* callbacks, and the price shown on the button (getPrice).                *)
(*                                                                         *)
(* JavaScript values are modelled by what they are:                        *)
(*   - a Number is [nan, neg, mag]: not-a-number, or a sign and a decimal  *)
(*     magnitude (digits, most significant first); every Number here is an *)
(*     integer or NaN, and arithmetic rounds to a 53-bit significand;      *)
(*   - a bigint is [neg, mag], exact;                                      *)
(*   - a string is a sequence of one-character strings.                    *)
(***************************************************************************)
EXTENDS Integers, Sequences, FiniteSets, TLC

(***************************************************************************)
(* Decimal magnitudes: sequences of digits 0..9, most significant first,   *)
(* without leading zeros (zero is <<0>>).                                  *)
(***************************************************************************)
RECURSIVE Norm(_)
Norm(d) ==
    IF Len(d) <= 1 THEN (IF d = <<>> THEN <<0>> ELSE d)
    ELSE IF Head(d) = 0 THEN Norm(Tail(d)) ELSE d

IsZeroD(d) == Norm(d) = <<0>>

IsOddD(d) == d[Len(d)] % 2 = 1

\* a < b for magnitudes
LessD(a, b) ==
    \/ Len(a) < Len(b)
    \/ /\ Len(a) = Len(b)
       /\ \E i \in 1..Len(a) :
             /\ a[i] < b[i]
             /\ \A j \in 1..(i - 1) : a[j] = b[j]

\* floor(d / 2), digit by digit from the most significant one
RECURSIVE HalfFrom(_, _, _)
HalfFrom(d, i, carry) ==
    IF i > Len(d) THEN <<>>
    ELSE LET cur == carry * 10 + d[i]
         IN  <<cur \div 2>> \o HalfFrom(d, i + 1, cur % 2)

HalfD(d) == Norm(HalfFrom(d, 1, 0))

\* the digits of a small natural number
RECURSIVE DigitsOf(_)
DigitsOf(n) == IF n < 10 THEN <<n>> ELSE DigitsOf(n \div 10) \o <<n % 10>>

\* d * k + carry for a small k >= 0, digit by digit from the least significant one
RECURSIVE MulCarry(_, _, _, _)
MulCarry(d, k, i, carry) ==
    IF i = 0
    THEN (IF carry = 0 THEN <<>> ELSE DigitsOf(carry))
    ELSE LET cur == d[i] * k + carry
         IN  MulCarry(d, k, i - 1, cur \div 10) \o <<cur % 10>>

MulSmallD(d, k) == Norm(MulCarry(d, k, Len(d), 0))

AddSmallD(d, k) == Norm(MulCarry(d, 1, Len(d), k))

\* the value of a short magnitude as an integer
RECURSIVE ValueD(_)
ValueD(d) == IF d = <<>> THEN 0 ELSE ValueD(SubSeq(d, 1, Len(d) - 1)) * 10 + d[Len(d)]

\* d * 2^k (d is evaluated at every level, before the next doubling)
RECURSIVE ShiftLeft(_, _)
ShiftLeft(d, k) ==
    IF k = 0 \/ d = <<>> THEN d ELSE ShiftLeft(MulSmallD(d, 2), k - 1)

\* 2^53, the width of a binary64 significand: every integer below it is a
\* binary64 value
SignificandLimit == <<9, 0, 0, 7, 1, 9, 9, 2, 5, 4, 7, 4, 0, 9, 9, 2>>

\* d shifted right until it fits the significand: the bits dropped (k), the last
\* of them (guard) and whether an earlier one was set (sticky)
RECURSIVE ShiftRight(_, _, _, _)
ShiftRight(d, k, guard, sticky) ==
    IF LessD(d, SignificandLimit)
    THEN [m |-> d, k |-> k, guard |-> guard, sticky |-> sticky]
    ELSE ShiftRight(HalfD(d), k + 1, IsOddD(d), sticky \/ guard)

\* the integer magnitude d rounded to the nearest binary64 value, ties to even
RoundToDouble(d) ==
    LET s  == ShiftRight(Norm(d), 0, FALSE, FALSE)
        up == s.guard /\ (s.sticky \/ IsOddD(s.m))
    IN  ShiftLeft(IF up THEN AddSmallD(s.m, 1) ELSE s.m, s.k)

(***************************************************************************)
(* JavaScript strings, Numbers and bigints.                                *)
(***************************************************************************)
DigitChar == <<"0", "1", "2", "3", "4", "5", "6", "7", "8", "9">>

CharDigit ==
    [ c \in {"0", "1", "2", "3", "4", "5", "6", "7", "8", "9"} |->
        CHOOSE d \in 0..9 : DigitChar[d + 1] = c ]

IsDigitChar(c) == c \in DOMAIN CharDigit

RECURSIVE CharsOf(_)
CharsOf(d) == IF d = <<>> THEN <<>> ELSE <<DigitChar[Head(d) + 1]>> \o CharsOf(Tail(d))

\* the digits of the longest prefix of s made of decimal digits
RECURSIVE DigitPrefix(_)
DigitPrefix(s) ==
    IF s = <<>> \/ ~IsDigitChar(Head(s)) THEN <<>>
    ELSE <<CharDigit[Head(s)]>> \o DigitPrefix(Tail(s))

NaN == [nan |-> TRUE, neg |-> FALSE, mag |-> <<0>>]

\* the Number of a small integer literal
Num(i) == [nan |-> FALSE, neg |-> i < 0, mag |-> DigitsOf(IF i < 0 THEN -i ELSE i)]

\* the integer a (small, non-NaN) Number stands for
IntOf(n) == IF n.neg THEN -ValueD(n.mag) ELSE ValueD(n.mag)

\* parseInt(string), radix 10: an optional sign, then the longest run of digits;
\* NaN when there is none; the value is converted to a Number (rounded)
parseInt(s) ==
    LET signed == s # <<>> /\ Head(s) \in {"-", "+"}
        ds     == DigitPrefix(IF signed THEN Tail(s) ELSE s)
    IN  IF ds = <<>> THEN NaN
        ELSE [nan |-> FALSE, neg |-> signed /\ Head(s) = "-",
              mag |-> RoundToDouble(Norm(ds))]

\* bigint.toString()
toString(b) == (IF b.neg THEN <<"-">> ELSE <<>>) \o CharsOf(b.mag)

\* a * b for Numbers, a of small magnitude: the exact product rounded to binary64;
\* the sign of a zero product is kept (-3 * 0 is -0)
Times(a, b) ==
    IF a.nan \/ b.nan THEN NaN
    ELSE [nan |-> FALSE, neg |-> a.neg # b.neg,
          mag |-> RoundToDouble(MulSmallD(b.mag, ValueD(a.mag)))]

\* a + i for a Number of small magnitude and a small integer literal i
Plus(a, i) == IF a.nan THEN NaN ELSE Num(IntOf(a) + i)

\* Math.max(a, b): NaN when either is
MathMax(a, b) ==
    IF a.nan \/ b.nan THEN NaN ELSE IF IntOf(a) >= IntOf(b) THEN a ELSE b

\* BigInt(number): throws a RangeError for NaN (every other Number here is an
\* integer); -0 becomes 0n
BigInt(n) ==
    [throws |-> n.nan,
     value  |-> [neg |-> n.neg /\ ~n.nan /\ ~IsZeroD(n.mag), mag |-> n.mag]]

\* the number of decimals of the base currency
EtherDecimals == 18

RECURSIVE Zeros(_)
Zeros(k) == IF k <= 0 THEN <<>> ELSE <<0>> \o Zeros(k - 1)

RECURSIVE TrimTrailingZeros(_)
TrimTrailingZeros(d) ==
    IF d = <<>> THEN <<>>
    ELSE IF d[Len(d)] = 0 THEN TrimTrailingZeros(SubSeq(d, 1, Len(d) - 1)) ELSE d

\* toEther(wei): the decimal string of wei / 10^18, trailing zeros of the
\* fraction (and an empty fraction) dropped
toEther(wei) ==
    LET padded   == Zeros(EtherDecimals + 1 - Len(wei.mag)) \o wei.mag
        split    == Len(padded) - EtherDecimals
        integer  == SubSeq(padded, 1, split)
        fraction == TrimTrailingZeros(SubSeq(padded, split + 1, Len(padded)))
    IN  (IF wei.neg THEN <<"-">> ELSE <<>>)
        \o CharsOf(integer)
        \o (IF fraction = <<>> THEN <<>> ELSE <<".">> \o CharsOf(fraction))

\* the claim condition before its read resolves
Undefined == [defined |-> FALSE]

\* line 30: quantity * parseInt(claimCondition?.pricePerToken?.toString() || "0")
total(q, cc) ==
    LET priceString == IF cc.defined THEN toString(cc.pricePerToken) ELSE <<"0">>
    IN  Times(q, parseInt(priceString))

\* getPrice(quantity) of a render with claim condition cc: the text shown on the
\* claim button, or the RangeError that BigInt throws
getPrice(q, cc) ==
    LET wei == BigInt(total(q, cc))
    IN  IF wei.throws THEN [throws |-> TRUE, value |-> <<"RangeError">>]
        ELSE [throws |-> FALSE, value |-> toEther(wei.value)]

(***************************************************************************)
(* Bounds and input sets of the model.                                     *)
(***************************************************************************)
\* the increment control is pressed only below this quantity
MaxQuantity == 3

\* claim submissions per run
MaxClaims == 2

\* the supply counters on the chain: tokens claimed, and tokens that can be
\* claimed beyond them
ChainClaimed == 1

ChainRemaining == 1

\* events per run
MaxSteps == 6

\* what the user can leave in the numeric input: empty, "0", "-1", "2.5"
TypedValues == { <<>>, <<"0">>, <<"-", "1">>, <<"2", ".", "5">> }

\* unit prices in wei of the runs of the claim flow: 0 and 2500
Prices == { <<0>>, <<2, 5, 0, 0>> }

\* unit prices in wei of the runs of the price computation: those, 10^16,
\* 10^18 (one ether), 2^53 + 1 and 123456789012345678
AllPrices ==
    Prices \cup
    { <<1, 0, 0, 0, 0, 0, 0, 0, 0, 0, 0, 0, 0, 0, 0, 0, 0>>,
      <<1, 0, 0, 0, 0, 0, 0, 0, 0, 0, 0, 0, 0, 0, 0, 0, 0, 0, 0>>,
      <<9, 0, 0, 7, 1, 9, 9, 2, 5, 4, 7, 4, 0, 9, 9, 3>>,
      <<1, 2, 3, 4, 5, 6, 7, 8, 9, 0, 1, 2, 3, 4, 5, 6, 7, 8>> }

Addresses == {"0xA11CE"}

\* what a failed transaction raises
Errors == {"user rejected", "execution reverted"}

Success == "NFT Claimed!"

(***************************************************************************)
(* The state of the component.                                             *)
(***************************************************************************)
VARIABLES
    pricePerToken,     \* the active claim condition's price on the chain (wei)
    account,           \* useActiveAccount(): the connected account, if any
    quantity,          \* useState(1): the value last given to setQuantity
    contractMetadata,  \* the four reads: [defined |-> FALSE] while loading
    claimedSupply,
    totalNftSupply,
    claimCondition,
    mounted,           \* FALSE once a render of App has thrown
    txs,               \* the claim transactions submitted, in order
    alerts,            \* the alert() calls made, in order
    last,              \* history: the last event and the quantity before it
    entered,           \* history: a manual entry has happened
    steps              \* history: the number of events so far

vars == <<pricePerToken, account, quantity, contractMetadata, claimedSupply, totalNftSupply,
          claimCondition, mounted, txs, alerts, last, entered, steps>>

reads == <<contractMetadata, claimedSupply, totalNftSupply, claimCondition>>

isContractMetadataLoading == ~contractMetadata.defined
isClaimedSupplyLoading == ~claimedSupply.defined
isTotalSupplyLoading == ~totalNftSupply.defined

\* the history of an event: what it was, and the quantity before it
Event(name, tx) ==
    /\ steps < MaxSteps
    /\ steps' = steps + 1
    /\ UNCHANGED pricePerToken
    /\ last' = [event |-> name, before |-> quantity, tx |-> tx]

\* the component after its first render, whatever the chain holds
Mounted ==
    /\ account = Undefined
    /\ quantity = Num(1)
    /\ contractMetadata = Undefined
    /\ claimedSupply = Undefined
    /\ totalNftSupply = Undefined
    /\ claimCondition = Undefined
    /\ mounted = TRUE
    /\ txs = <<>>
    /\ alerts = <<>>
    /\ last = [event |-> "init", before |-> Num(1), tx |-> 0]
    /\ entered = FALSE
    /\ steps = 0

Init ==
    /\ pricePerToken \in Prices
    /\ Mounted

PriceInit ==
    /\ pricePerToken \in AllPrices
    /\ Mounted

\* mutant: a render that never throws
MutRendersAlways(q, cc) == TRUE

\* a render of App with quantity q and claim condition cc completes: the only
\* expression of the render that can throw is getPrice(quantity) on line 106,
\* and in it only BigInt(total)
Renders(q, cc) == ~BigInt(total(q, cc)).throws

\* setQuantity(v): the state is replaced and, while mounted, App renders again;
\* a render that throws takes the whole tree off the page (there is no error
\* boundary in App), and the callbacks of claims in flight still run after that
setQuantity(v) ==
    /\ quantity' = v
    /\ mounted' = (mounted /\ Renders(v, claimCondition))

(***************************************************************************)
(* The wallet session and the four reads.                                  *)
(***************************************************************************)
Connect ==
    /\ mounted
    /\ ~account.defined
    /\ \E a \in Addresses : account' = [defined |-> TRUE, address |-> a]
    /\ Event("connect", 0)
    /\ UNCHANGED <<quantity, reads, mounted, txs, alerts, entered>>

Disconnect ==
    /\ mounted
    /\ account.defined
    /\ account' = Undefined
    /\ Event("disconnect", 0)
    /\ UNCHANGED <<quantity, reads, mounted, txs, alerts, entered>>

ContractMetadataLoaded ==
    /\ mounted
    /\ isContractMetadataLoading
    /\ contractMetadata' = [defined |-> TRUE]
    /\ Event("contractMetadata", 0)
    /\ UNCHANGED <<account, quantity, claimedSupply, totalNftSupply,
                   claimCondition, mounted, txs, alerts, entered>>

ClaimedSupplyLoaded ==
    /\ mounted
    /\ isClaimedSupplyLoading
    /\ claimedSupply' = [defined |-> TRUE, value |-> ChainClaimed]
    /\ Event("claimedSupply", 0)
    /\ UNCHANGED <<account, quantity, contractMetadata, totalNftSupply,
                   claimCondition, mounted, txs, alerts, entered>>

TotalSupplyLoaded ==
    /\ mounted
    /\ isTotalSupplyLoading
    /\ totalNftSupply' = [defined |-> TRUE, value |-> ChainClaimed + ChainRemaining]
    /\ Event("totalNftSupply", 0)
    /\ UNCHANGED <<account, quantity, contractMetadata, claimedSupply,
                   claimCondition, mounted, txs, alerts, entered>>

ClaimConditionLoaded ==
    /\ mounted
    /\ ~claimCondition.defined
    /\ claimCondition' =
          [defined |-> TRUE,
           pricePerToken |-> [neg |-> FALSE, mag |-> pricePerToken]]
    /\ mounted' = Renders(quantity, claimCondition')
    /\ Event("claimCondition", 0)
    /\ UNCHANGED <<account, quantity, contractMetadata, claimedSupply,
                   totalNftSupply, txs, alerts, entered>>

(***************************************************************************)
(* The quantity stepper.                                                   *)
(***************************************************************************)
\* mutant: the decrement without its floor
MutDecrementedUnclamped(q) == Plus(q, -1)

\* line 78: Math.max(1, quantity - 1)
Decremented(q) == MathMax(Num(1), Plus(q, -1))

\* mutant: an increment that stops at the supply left on the chain
MutIncrementedCapped(q) ==
    IF ~q.nan /\ IntOf(q) >= ChainRemaining THEN q ELSE Plus(q, 1)

\* line 88: quantity + 1
Incremented(q) == Plus(q, 1)

Decrement ==
    /\ mounted
    /\ setQuantity(Decremented(quantity))
    /\ Event("decrement", 0)
    /\ UNCHANGED <<account, reads, txs, alerts, entered>>

Change ==
    /\ mounted
    /\ \E typed \in TypedValues : setQuantity(parseInt(typed))
    /\ Event("change", 0)
    /\ entered' = TRUE
    /\ UNCHANGED <<account, reads, txs, alerts>>

Increment ==
    /\ mounted
    /\ IntOf(quantity) < MaxQuantity
    /\ setQuantity(Incremented(quantity))
    /\ Event("increment", 0)
    /\ UNCHANGED <<account, reads, txs, alerts, entered>>

(***************************************************************************)
(* The claim button and its callbacks.                                     *)
(***************************************************************************)
\* lines 93-97: the transaction prop, evaluated when the button is pressed
transaction(acct, q) ==
    [to       |-> IF acct.defined THEN acct.address ELSE "",
     quantity |-> BigInt(q)]

\* mutant: a submission that resets the quantity at once
MutClaimResets ==
    /\ mounted
    /\ Len(txs) < MaxClaims
    /\ LET request == transaction(account, quantity)
       IN  txs' = Append(txs, [to       |-> request.to,
                               quantity |-> request.quantity.value,
                               throws   |-> request.quantity.throws,
                               status   |-> "inflight",
                               error    |-> ""])
    /\ setQuantity(Num(1))
    /\ Event("claim", Len(txs) + 1)
    /\ UNCHANGED <<account, reads, alerts, entered>>

\* the button is pressed: the request of the current render is submitted.
\* App passes no `disabled` prop and keeps no submitting flag, so the press is
\* possible whenever the button is on the page
Claim ==
    /\ mounted
    /\ Len(txs) < MaxClaims
    /\ LET request == transaction(account, quantity)
       IN  txs' = Append(txs, [to       |-> request.to,
                               quantity |-> request.quantity.value,
                               throws   |-> request.quantity.throws,
                               status   |-> "inflight",
                               error    |-> ""])
    /\ Event("claim", Len(txs) + 1)
    /\ UNCHANGED <<account, quantity, reads, mounted, alerts, entered>>

\* mutant: a confirmation that notifies and leaves the quantity
MutConfirmedNoReset(i) ==
    /\ alerts' = Append(alerts, [msg |-> Success, tx |-> i])
    /\ UNCHANGED <<quantity, mounted>>

\* mutant: an error handler that also resets the quantity
MutErrorResets(i, e) ==
    /\ alerts' = Append(alerts, [msg |-> e, tx |-> i])
    /\ setQuantity(Num(1))

\* lines 98-101
onTransactionConfirmed(i) ==
    /\ alerts' = Append(alerts, [msg |-> Success, tx |-> i])
    /\ setQuantity(Num(1))

\* lines 102-104
onError(i, e) ==
    /\ alerts' = Append(alerts, [msg |-> e, tx |-> i])
    /\ UNCHANGED <<quantity, mounted>>

\* The TransactionButton ends every submitted transaction with one call of
\* one of the two callbacks: onTransactionConfirmed, or onError with what was
\* raised. A request whose BigInt(quantity) threw can only end in onError.
Confirmed ==
    \E i \in 1..Len(txs) :
        /\ txs[i].status = "inflight"
        /\ ~txs[i].throws
        /\ txs' = [txs EXCEPT ![i].status = "confirmed"]
        /\ onTransactionConfirmed(i)
        /\ Event("confirmed", i)
        /\ UNCHANGED <<account, reads, entered>>

Failed ==
    \E i \in 1..Len(txs), e \in Errors :
        /\ txs[i].status = "inflight"
        /\ txs' = [txs EXCEPT ![i].status = "errored", ![i].error = e]
        /\ onError(i, e)
        /\ Event("error", i)
        /\ UNCHANGED <<account, reads, entered>>

Next ==
    \/ Connect
    \/ Disconnect
    \/ ContractMetadataLoaded
    \/ ClaimedSupplyLoaded
    \/ TotalSupplyLoaded
    \/ ClaimConditionLoaded
    \/ Decrement
    \/ Change
    \/ Increment
    \/ Claim
    \/ Confirmed
    \/ Failed

Spec == Init /\ [][Next]_vars

\* the price computation alone: the claim condition loads and the quantity changes
PriceNext ==
    \/ ClaimConditionLoaded
    \/ Decrement
    \/ Change
    \/ Increment

PriceSpec == PriceInit /\ [][PriceNext]_vars
(***************************************************************************)
(* Properties.                                                             *)
(***************************************************************************)
\* the calls alert(m) made for transaction i
AlertsFor(i, m) ==
    Cardinality({k \in 1..Len(alerts) : alerts[k] = [msg |-> m, tx |-> i]})

AllAlertsFor(i) == Cardinality({k \in 1..Len(alerts) : alerts[k].tx = i})

LastAlert == alerts[Len(alerts)]

IsPositive(n) == ~n.nan /\ IntOf(n) >= 1

BigPositive(b) == ~b.neg /\ ~IsZeroD(b.mag)

StepperEvents == {"decrement", "change", "increment"}

\* C1: for every quantity q >= 1 and loaded unit price p, the total converted for
\* display is exactly q * p in the smallest unit.
C1_TotalIsExactProduct ==
    (claimCondition.defined /\ IsPositive(quantity)) =>
        BigInt(total(quantity, claimCondition)).value
            = [neg |-> FALSE, mag |-> MulSmallD(pricePerToken, IntOf(quantity))]

\* C2: after every confirmation the quantity is 1 and the success notification
\* has fired exactly once for that transaction, whatever the quantity was.
C2_ConfirmedResetsAndNotifiesOnce ==
    /\ last.event = "confirmed" =>
          /\ quantity = Num(1)
          /\ LastAlert = [msg |-> Success, tx |-> last.tx]
    /\ \A i \in 1..Len(txs) :
          AlertsFor(i, Success) = IF txs[i].status = "confirmed" THEN 1 ELSE 0

\* a confirmation arrived after the quantity had been changed while the
\* transaction was in flight
C2_Witness ==
    /\ last.event = "confirmed"
    /\ last.before # Num(1)
    /\ ~last.before.nan
    /\ txs[last.tx].quantity # BigInt(last.before).value
    /\ txs[last.tx].to # ""
    /\ mounted

\* C3: after every claim error the quantity is what it was before the callback,
\* the alert shows the raw error, and no success notification exists for that
\* claim.
C3_ErrorKeepsQuantityAndShowsError ==
    /\ last.event = "error" =>
          /\ quantity = last.before
          /\ LastAlert = [msg |-> txs[last.tx].error, tx |-> last.tx]
    /\ \A i \in 1..Len(txs) :
          txs[i].status = "errored" =>
              /\ AlertsFor(i, Success) = 0
              /\ AlertsFor(i, txs[i].error) = 1
              /\ AllAlertsFor(i) = 1

\* a claim failed while the quantity was not 1 and another claim had succeeded
C3_Witness ==
    /\ last.event = "error"
    /\ quantity # Num(1)
    /\ txs[last.tx].to # ""
    /\ \E i \in 1..Len(txs) : txs[i].status = "confirmed"

\* C4: in every reachable state, a press of the decrement control leaves
\* max(1, quantity - 1), an integer that is at least 1.
C4_DecrementClamped ==
    last.event = "decrement" =>
        /\ ~last.before.nan
        /\ IsPositive(quantity)
        /\ IntOf(quantity) =
              IF IntOf(last.before) - 1 > 1 THEN IntOf(last.before) - 1 ELSE 1

\* the decrement hit the floor from a typed value below 1, after a claim outcome
C4_Witness ==
    /\ last.event = "decrement"
    /\ IntOf(last.before) < 1
    /\ quantity = Num(1)
    /\ \E i \in 1..Len(txs) : txs[i].status # "inflight"

\* C5: while the claim condition has not loaded, the displayed total is "0" for
\* every value the quantity holds.
C5_UnloadedTotalIsZero ==
    ~claimCondition.defined =>
        getPrice(quantity, claimCondition) = [throws |-> FALSE, value |-> <<"0">>]

\* C6: a press of the increment control leaves quantity + 1, whatever the
\* supply counters show.
C6_IncrementAddsOne ==
    last.event = "increment" =>
        /\ ~last.before.nan
        /\ ~quantity.nan
        /\ IntOf(quantity) = IntOf(last.before) + 1

\* increments alone took the quantity past the supply left, and a claim for it
\* was submitted by a connected account with no other claim in flight; the
\* controls are still on the page
C6_Witness ==
    /\ claimedSupply.defined
    /\ totalNftSupply.defined
    /\ ~entered
    /\ last.event = "claim"
    /\ IntOf(quantity) > totalNftSupply.value - claimedSupply.value
    /\ account.defined
    /\ Len(txs) = 1
    /\ mounted
    /\ IntOf(quantity) < MaxQuantity

\* C9 as stated: the quantity starts at 1 and only the stepper controls and the
\* numeric input change it.
C9_OnlyStepperAndInputChange ==
    /\ last.event = "init" => quantity = Num(1)
    /\ last.event \notin StepperEvents => quantity = last.before

\* C9 amended: the quantity starts at 1; the stepper controls, the numeric input
\* and a claim confirmation (which sets it to 1) change it; no other event does.
C9_OnlyStepperInputAndConfirmationChange ==
    /\ last.event = "init" => quantity = Num(1)
    /\ last.event = "confirmed" => quantity = Num(1)
    /\ last.event \notin (StepperEvents \cup {"confirmed"}) =>
          quantity = last.before

\* a claim was submitted while the quantity was not the initial one
C9_Witness ==
    /\ last.event = "claim"
    /\ quantity # Num(1)
    /\ mounted

\* without a manual entry the quantity is an integer >= 1 and every claim
\* submitted requests at least one token
NoEntryKeepsRange ==
    ~entered =>
        /\ IsPositive(quantity)
        /\ \A i \in 1..Len(txs) : ~txs[i].throws /\ BigPositive(txs[i].quantity)

====
